---- MODULE Spec2Model ----
(***************************************************************************)
(* Model of the condition engine of pypipe (src/pypipe/conditions/base.py) *)
(* and of the condition-item parser registry                               *)
(* (src/powerbase/parse/_condition/condition_item.py).                     *)
(*                                                                         *)
(* Python objects live in a heap: `heap` is the sequence of condition      *)
(* objects (an object's identity is its index), `lists` is the sequence of *)
(* Python list objects (a list's identity is its index), so that aliasing  *)
(* and in-place mutation (`+=`) are visible.                               *)
(***************************************************************************)
EXTENDS Integers, Sequences, FiniteSets, TLC

VARIABLES
    heap,               \* condition objects, by identity
    lists,              \* list objects (the `subconditions` lists), by identity
    now,                \* datetime.datetime.now(), the system clock, in ticks
    mode,               \* BaseCondition.mode
    _current_datetime,  \* the class attribute _current_datetime, per class
    ret,                \* outcome of the last operation
    CONDITION_PARSERS,  \* the module-level registry list
    registered          \* history: the rules in the order they were registered

clockvars == <<now, mode, _current_datetime>>

vars == <<heap, lists, clockvars, ret, CONDITION_PARSERS, registered>>

---------------------------------------------------------------------------
(* Bounds of the model *)

MaxObjs == 5        \* heap size, construction specification
MaxArgs == 2        \* number of arguments of a variadic constructor call
MaxEvalObjs == 4    \* heap size, evaluation specification
MaxEvalArgs == 3    \* constructor arguments, evaluation specification
MaxTimeObjs == 4    \* heap size, estimate specification
MaxTime == 3        \* last instant of the clock
MaxClockObjs == 3   \* heap size, clock specification
CycleLen == 4       \* length of the recurrence cycle of a time window
MaxParsers == 2     \* number of registered rules
MaxPatLen == 1      \* length of a pattern / of a parsed text

(* datetime.timedelta.resolution, in ticks *)
Resolution == 1

---------------------------------------------------------------------------
(* Values *)

NoPeriod == [start |-> 0, end |-> 0]

NewObj(type, subconditions, condition, period) ==
    [type |-> type, subconditions |-> subconditions,
     condition |-> condition, period |-> period]

AlwaysTrue == NewObj("AlwaysTrue", 0, 0, NoPeriod)
AlwaysFalse == NewObj("AlwaysFalse", 0, 0, NoPeriod)
(* A condition whose evaluation raises (the `raises()` double of the tests) *)
Raises == NewObj("Raises", 0, 0, NoPeriod)
TimeCondition(period) == NewObj("TimeCondition", 0, 0, period)

Returned(value, visited) ==
    [kind |-> "return", value |-> value, exc |-> "", visited |-> visited]
Raised(exc, visited) ==
    [kind |-> "raise", value |-> 0, exc |-> exc, visited |-> visited]

NoRet == [op |-> "", args |-> <<>>, out |-> Returned(0, <<>>)]
Ret(op, args, out) == [op |-> op, args |-> args, out |-> out]

Objs == 1..Len(heap)

(* Argument lists of at most n objects *)
ArgLists(n) == UNION {[1..k -> Objs] : k \in 0..n}

isinstance(h, cond, type) == h[cond].type = type

---------------------------------------------------------------------------
(* Any.__init__ / All.__init__ *)

(* conds = cond.subconditions if isinstance(cond, self_type) else [cond]   *)
(* `list` is the identity of the list `conds` is bound to (0: a fresh one) *)
CondsNoFlatten(h, ls, cond, self_type) ==
    [items |-> <<cond>>, list |-> 0]

Conds(h, ls, cond, self_type) ==
    IF isinstance(h, cond, self_type)
    THEN [items |-> ls[h[cond].subconditions], list |-> h[cond].subconditions]
    ELSE [items |-> <<cond>>, list |-> 0]

(* self.subconditions += conds : extends the list object in place.         *)
(* st = [lists, self]: the list objects and the list self.subconditions is *)
(* bound to.                                                               *)
IAddRebinding(st, conds) ==
    IF conds.list # 0 /\ st.lists[st.self] = <<>>
    THEN [st EXCEPT !.self = conds.list]
    ELSE [st EXCEPT !.lists[st.self] = @ \o conds.items]

IAdd(st, conds) ==
    [st EXCEPT !.lists[st.self] = @ \o conds.items]

RECURSIVE InitLoop(_, _, _, _, _)
InitLoop(st, h, self_type, conditions, i) ==
    IF i > Len(conditions)
    THEN st
    ELSE InitLoop(IAdd(st, Conds(h, st.lists, conditions[i], self_type)),
                  h, self_type, conditions, i + 1)

(* The constructor: a new object whose subconditions is a new list *)
CompositeInit(h, ls, self_type, conditions) ==
    LET st0 == [lists |-> Append(ls, <<>>), self |-> Len(ls) + 1]
        st == InitLoop(st0, h, self_type, conditions, 1)
    IN  [heap |-> Append(h, NewObj(self_type, st.self, 0, NoPeriod)),
         lists |-> st.lists,
         value |-> Len(h) + 1]

Any_init(h, ls, conditions) == CompositeInit(h, ls, "Any", conditions)
All_init(h, ls, conditions) == CompositeInit(h, ls, "All", conditions)

(* Not.__init__ *)
Not_init(h, ls, condition) ==
    [heap |-> Append(h, NewObj("Not", 0, condition, NoPeriod)),
     lists |-> ls,
     value |-> Len(h) + 1]

(* BaseCondition.__and__, __or__, __invert__ *)
Base_and(h, ls, self, other) == All_init(h, ls, <<self, other>>)
Base_or(h, ls, self, other) == Any_init(h, ls, <<self, other>>)
Base_invert(h, ls, self) == Not_init(h, ls, self)

(* Not.__invert__ *)
Not_invert_wrapping(h, ls, self) == Not_init(h, ls, self)

Not_invert(h, ls, self) ==
    [heap |-> h, lists |-> ls, value |-> h[self].condition]

(* ~self: Python dispatches on the type of self *)
Invert(h, ls, self) ==
    IF isinstance(h, self, "Not")
    THEN Not_invert(h, ls, self)
    ELSE Base_invert(h, ls, self)

(* The children of a composite, as a sequence of objects *)
Children(h, ls, o) ==
    IF h[o].type \in {"Any", "All"} THEN ls[h[o].subconditions]
    ELSE IF h[o].type = "Not" THEN <<h[o].condition>>
    ELSE <<>>

---------------------------------------------------------------------------
(* ConditionContainer.apply *)

ApplyFuncs == {"same", "negate"}

(* func(subcond): the functions applied are x -> x and x -> ~x *)
CallFunc(h, ls, subcond, func) ==
    IF func = "negate"
    THEN Invert(h, ls, subcond)
    ELSE [heap |-> h, lists |-> ls, value |-> subcond]

IsConditionContainer(h, o) == h[o].type \in {"Any", "All", "Not"}

RECURSIVE apply(_, _, _, _)
RECURSIVE ApplyLoop(_, _, _, _)
(* st = [heap, lists, subconds]: the loop over self.subconditions *)
ApplyLoop(st, subconditions, func, i) ==
    IF i > Len(subconditions)
    THEN st
    ELSE LET subcond == subconditions[i]
             r == IF IsConditionContainer(st.heap, subcond)
                  THEN apply(st.heap, st.lists, subcond, func)
                  ELSE CallFunc(st.heap, st.lists, subcond, func)
         IN  ApplyLoop([heap |-> r.heap, lists |-> r.lists,
                        subconds |-> Append(st.subconds, r.value)],
                       subconditions, func, i + 1)

(* subconds is rebuilt and passed to the constructor of the type of self *)
apply(h, ls, self, func) ==
    LET st == ApplyLoop([heap |-> h, lists |-> ls, subconds |-> <<>>],
                        Children(h, ls, self), func, 1)
    IN  CASE h[self].type = "Any" -> Any_init(st.heap, st.lists, st.subconds)
          [] h[self].type = "All" -> All_init(st.heap, st.lists, st.subconds)
          [] h[self].type = "Not" -> Not_init(st.heap, st.lists, st.subconds[1])

---------------------------------------------------------------------------
(* Time windows (pypipe.time), as far as the conditions use them: a window *)
(* [start, end) that recurs every CycleLen ticks.                          *)

Periods == {[start |-> s, end |-> e] : s \in 0..(CycleLen - 1), e \in 1..CycleLen}
               \ {p \in [start : 0..(CycleLen - 1), end : 1..CycleLen] : p.start >= p.end}

(* dt in period *)
contains(period, dt) ==
    LET m == dt % CycleLen IN period.start <= m /\ m < period.end

(* period.rollforward(dt).left: dt itself inside the window, else the next *)
(* start of the window after dt                                            *)
rollforward_left(period, dt) ==
    IF contains(period, dt)
    THEN dt
    ELSE dt + ((period.start + CycleLen - (dt % CycleLen)) % CycleLen)

---------------------------------------------------------------------------
(* The clock: BaseCondition.current_datetime and set_current_datetime      *)

Instants == 0..MaxTime

(* The classes whose _current_datetime is modelled: only instances of      *)
(* TimeCondition read current_datetime, and they find the attribute on     *)
(* TimeCondition or on BaseCondition                                       *)
Classes == {"BaseCondition", "TimeCondition"}

(* No class has the attribute (the state after import) *)
NoOverride == [cls \in Classes |-> <<>>]

(* The clock state: clk.override[cls] is <<>> when cls has no attribute    *)
(* _current_datetime of its own, <<value>> when it has                     *)
Clock == [now |-> now, mode |-> mode, override |-> _current_datetime]

(* getattr(self, "_current_datetime") for an instance of class `type`: the *)
(* class's own attribute, else the one inherited from BaseCondition; <<>>  *)
(* when hasattr(self, "_current_datetime") is false                        *)
lookup_current_datetime(clk, type) ==
    IF type \in Classes /\ clk.override[type] # <<>>
    THEN clk.override[type]
    ELSE clk.override["BaseCondition"]

(* BaseCondition.current_datetime *)
current_datetime(clk, h, o) ==
    IF clk.mode = "test" /\ lookup_current_datetime(clk, h[o].type) # <<>>
    THEN lookup_current_datetime(clk, h[o].type)[1]
    ELSE clk.now

(* BaseCondition.set_current_datetime, called on class cls *)
set_current_datetime(override, cls, value) ==
    [override EXCEPT ![cls] = <<value>>]

---------------------------------------------------------------------------
(* __bool__ : the outcomes bool(o) can have when it starts under clock     *)
(* state t. The system clock runs while a condition is evaluated, so two   *)
(* reads of it in one evaluation may give different instants: an outcome   *)
(* carries the clock state it leaves, and the evaluation of the next child *)
(* starts from there. `visited` holds the direct children of o whose       *)
(* __bool__ was called, in call order.                                     *)

EvalReturned(value, visited, t) ==
    [kind |-> "return", value |-> value, exc |-> "", visited |-> visited,
     clock |-> t]
EvalRaised(exc, visited, t) ==
    [kind |-> "raise", value |-> FALSE, exc |-> exc, visited |-> visited,
     clock |-> t]

(* What the caller of bool(o) observes of an outcome *)
Observed(r) ==
    IF r.kind = "raise"
    THEN Raised(r.exc, r.visited)
    ELSE Returned(r.value, r.visited)

(* The clock states a read of the clock can be made in, when the previous  *)
(* read (or the start of the evaluation) was made in clock state t         *)
Elapse(t) == {[t EXCEPT !.now = later] : later \in t.now..MaxTime}

RECURSIVE Bool(_, _, _, _)
RECURSIVE PyAny(_, _, _, _, _)
RECURSIVE PyAll(_, _, _, _, _)
RECURSIVE PyAnyEager(_, _, _, _, _)

(* A disjunction that evaluates every element before deciding *)
PyAnyEager(h, ls, t, seq, i) ==
    IF i > Len(seq)
    THEN {EvalReturned(FALSE, seq, t)}
    ELSE UNION {
           IF r.kind = "raise"
           THEN {EvalRaised(r.exc, SubSeq(seq, 1, i), r.clock)}
           ELSE {IF rest.kind = "raise"
                 THEN rest
                 ELSE EvalReturned(r.value \/ rest.value, seq, rest.clock) :
                    rest \in PyAnyEager(h, ls, r.clock, seq, i + 1)} :
           r \in Bool(h, ls, t, seq[i])}

(* any(seq), from element i on: stops at the first true element *)
PyAny(h, ls, t, seq, i) ==
    IF i > Len(seq)
    THEN {EvalReturned(FALSE, seq, t)}
    ELSE UNION {
           IF r.kind = "raise"
           THEN {EvalRaised(r.exc, SubSeq(seq, 1, i), r.clock)}
           ELSE IF r.value
                THEN {EvalReturned(TRUE, SubSeq(seq, 1, i), r.clock)}
                ELSE PyAny(h, ls, r.clock, seq, i + 1) :
           r \in Bool(h, ls, t, seq[i])}

(* all(seq), from element i on: stops at the first false element *)
PyAll(h, ls, t, seq, i) ==
    IF i > Len(seq)
    THEN {EvalReturned(TRUE, seq, t)}
    ELSE UNION {
           IF r.kind = "raise"
           THEN {EvalRaised(r.exc, SubSeq(seq, 1, i), r.clock)}
           ELSE IF ~r.value
                THEN {EvalReturned(FALSE, SubSeq(seq, 1, i), r.clock)}
                ELSE PyAll(h, ls, r.clock, seq, i + 1) :
           r \in Bool(h, ls, t, seq[i])}

Any_bool(h, ls, t, o) == PyAny(h, ls, t, ls[h[o].subconditions], 1)
All_bool(h, ls, t, o) == PyAll(h, ls, t, ls[h[o].subconditions], 1)

(* not(self.condition) *)
Not_bool(h, ls, t, o) ==
    {IF r.kind = "raise"
     THEN EvalRaised(r.exc, <<h[o].condition>>, r.clock)
     ELSE EvalReturned(~r.value, <<h[o].condition>>, r.clock) :
        r \in Bool(h, ls, t, h[o].condition)}

(* self.current_datetime in self.period: one read of the clock, made when  *)
(* the evaluation gets to this condition                                   *)
TimeCondition_bool(h, t, o) ==
    {EvalReturned(contains(h[o].period, current_datetime(t1, h, o)), <<>>, t1) :
        t1 \in Elapse(t)}

Bool(h, ls, t, o) ==
    CASE h[o].type = "AlwaysTrue" -> {EvalReturned(TRUE, <<>>, t)}
      [] h[o].type = "AlwaysFalse" -> {EvalReturned(FALSE, <<>>, t)}
      [] h[o].type = "Raises" -> {EvalRaised("ConditionEvaluationError", <<>>, t)}
      [] h[o].type = "TimeCondition" -> TimeCondition_bool(h, t, o)
      [] h[o].type = "Any" -> Any_bool(h, ls, t, o)
      [] h[o].type = "All" -> All_bool(h, ls, t, o)
      [] h[o].type = "Not" -> Not_bool(h, ls, t, o)

---------------------------------------------------------------------------
(* Next-change estimates *)

(* TimeCondition.estimate_next *)
estimate_next(h, o, dt) ==
    Returned(dt - rollforward_left(h[o].period, dt), <<>>)

(* hasattr(cond, "estimate_timedelta"): Any and All define the method, Not *)
(* forwards the lookup to its wrapped condition (Not.__getattr__)          *)
RECURSIVE hasattr_estimate_timedelta(_, _)
hasattr_estimate_timedelta(h, cond) ==
    CASE h[cond].type \in {"Any", "All"} -> TRUE
      [] h[cond].type = "Not" -> hasattr_estimate_timedelta(h, h[cond].condition)
      [] OTHER -> FALSE

(* hasattr("estimate_timedelta"): the builtin called with one argument *)
hasattr_one_argument(name) == Raised("TypeError", <<>>)

RECURSIVE estimate_timedelta(_, _, _, _)

(* The element the generator of Any.estimate_timedelta yields for cond *)
Any_estimate_element(h, ls, cond, dt) ==
    LET g == hasattr_one_argument("estimate_timedelta") IN
    IF g.kind = "raise" THEN g
    ELSE IF g.value THEN estimate_timedelta(h, ls, cond, dt)
    ELSE Returned(0, <<>>)

(* The element the generator of All.estimate_timedelta yields for cond *)
All_estimate_element(h, ls, cond, dt) ==
    IF hasattr_estimate_timedelta(h, cond)
    THEN estimate_timedelta(h, ls, cond, dt)
    ELSE Returned(Resolution, <<>>)

(* min(generator) / max(generator): acc is the best element so far, or    *)
(* "empty"; an element that raises ends the iteration                      *)
RECURSIVE PyMin(_, _, _, _, _, _)
PyMin(h, ls, seq, dt, i, acc) ==
    IF i > Len(seq)
    THEN IF acc = <<>> THEN Raised("ValueError", <<>>) ELSE Returned(acc[1], <<>>)
    ELSE LET e == Any_estimate_element(h, ls, seq[i], dt) IN
         IF e.kind = "raise" THEN e
         ELSE PyMin(h, ls, seq, dt, i + 1,
                    IF acc = <<>> \/ e.value < acc[1] THEN <<e.value>> ELSE acc)

RECURSIVE PyMax(_, _, _, _, _, _)
PyMax(h, ls, seq, dt, i, acc) ==
    IF i > Len(seq)
    THEN IF acc = <<>> THEN Raised("ValueError", <<>>) ELSE Returned(acc[1], <<>>)
    ELSE LET e == All_estimate_element(h, ls, seq[i], dt) IN
         IF e.kind = "raise" THEN e
         ELSE PyMax(h, ls, seq, dt, i + 1,
                    IF acc = <<>> \/ e.value > acc[1] THEN <<e.value>> ELSE acc)

Any_estimate_timedelta(h, ls, o, dt) ==
    PyMin(h, ls, ls[h[o].subconditions], dt, 1, <<>>)

All_estimate_timedelta(h, ls, o, dt) ==
    PyMax(h, ls, ls[h[o].subconditions], dt, 1, <<>>)

(* o.estimate_timedelta(dt) *)
estimate_timedelta(h, ls, o, dt) ==
    CASE h[o].type = "Any" -> Any_estimate_timedelta(h, ls, o, dt)
      [] h[o].type = "All" -> All_estimate_timedelta(h, ls, o, dt)
      [] h[o].type = "Not" /\ hasattr_estimate_timedelta(h, o) ->
            estimate_timedelta(h, ls, h[o].condition, dt)
      [] OTHER -> Raised("AttributeError", <<>>)

---------------------------------------------------------------------------
(* The parser registry (condition_item.py).  A text is a sequence of       *)
(* characters; a rule is a Parser(s, func, regex).                         *)

Alphabet == {"a", "b"}
Wildcard == "."
Funcs == {"f", "g"}

Texts == UNION {[1..k -> Alphabet] : k \in 1..MaxPatLen}
RegexPatterns == UNION {[1..k -> {"a", Wildcard}] : k \in 1..MaxPatLen}

Parser(s, func, regex) == [s |-> s, func |-> func, regex |-> regex]

Rules == {Parser(s, f, TRUE) : s \in RegexPatterns, f \in Funcs}
            \cup {Parser(s, f, FALSE) : s \in Texts, f \in Funcs}

(* Whether the rule's pattern matches the whole text: an exact string, or  *)
(* a regex in which the wildcard stands for any one character              *)
Matches(parser, s) ==
    IF parser.regex
    THEN /\ Len(parser.s) = Len(s)
         /\ \A i \in 1..Len(s) : parser.s[i] = Wildcard \/ parser.s[i] = s[i]
    ELSE parser.s = s

(* parser(s): the result of the rule's function, or ParserError *)
Parser_call(parser, s) ==
    IF Matches(parser, s)
    THEN Returned(parser.func, <<>>)
    ELSE Raised("ParserError", <<>>)

(* add_condition_parser *)
add_condition_parser_front(parsers, s, func, regex) ==
    <<Parser(s, func, regex)>> \o parsers

add_condition_parser(parsers, s, func, regex) ==
    Append(parsers, Parser(s, func, regex))

(* parse_condition_item: the loop from rule i on; `visited` holds the rules *)
(* called so far                                                           *)
RECURSIVE ParseLoop(_, _, _)
ParseLoop(parsers, s, i) ==
    IF i > Len(parsers)
    THEN Raised("ValueError", [k \in 1..Len(parsers) |-> k])
    ELSE LET r == Parser_call(parsers[i], s) IN
         IF r.kind = "raise" /\ r.exc = "ParserError"
         THEN ParseLoop(parsers, s, i + 1)
         ELSE [r EXCEPT !.visited = [k \in 1..i |-> k]]

(* A loop that lets a later matching rule override an earlier one *)
RECURSIVE ParseLoopLast(_, _, _)
ParseLoopLast(parsers, s, i) ==
    IF i < 1
    THEN Raised("ValueError", [k \in 1..Len(parsers) |-> k])
    ELSE LET r == Parser_call(parsers[i], s) IN
         IF r.kind = "raise" /\ r.exc = "ParserError"
         THEN ParseLoopLast(parsers, s, i - 1)
         ELSE [r EXCEPT !.visited = [k \in 1..(Len(parsers) - i + 1) |-> Len(parsers) - k + 1]]

parse_condition_item_last(parsers, s) == ParseLoopLast(parsers, s, Len(parsers))

parse_condition_item(parsers, s) == ParseLoop(parsers, s, 1)

---------------------------------------------------------------------------
(* Actions *)

Room(max) == Len(heap) < max

(* An operation that returns the object r.value, leaving the heap as r *)
Alloc(r, op, args) ==
    /\ heap' = r.heap
    /\ lists' = r.lists
    /\ ret' = Ret(op, args, Returned(r.value, <<>>))
    /\ UNCHANGED <<clockvars, CONDITION_PARSERS, registered>>

NewAny(conditions) == Alloc(Any_init(heap, lists, conditions), "Any", conditions)
NewAll(conditions) == Alloc(All_init(heap, lists, conditions), "All", conditions)
NewNot(condition) == Alloc(Not_init(heap, lists, condition), "Not", <<condition>>)
And(self, other) == Alloc(Base_and(heap, lists, self, other), "__and__", <<self, other>>)
Or(self, other) == Alloc(Base_or(heap, lists, self, other), "__or__", <<self, other>>)
InvertOp(self) == Alloc(Invert(heap, lists, self), "__invert__", <<self>>)

Apply(self, func) ==
    Alloc(apply(heap, lists, self, func), "apply", <<self>>)

(* bool(o): one of the outcomes the evaluation can have; the system clock  *)
(* is left at the instant of the evaluation's last read of it              *)
Evaluate(o) ==
    \E r \in Bool(heap, lists, Clock, o) :
        /\ ret' = Ret("__bool__", <<o>>, Observed(r))
        /\ now' = r.clock.now
        /\ UNCHANGED <<heap, lists, mode, _current_datetime,
                       CONDITION_PARSERS, registered>>

EstimateNext(o, dt) ==
    /\ isinstance(heap, o, "TimeCondition")
    /\ ret' = Ret("estimate_next", <<o, dt>>, estimate_next(heap, o, dt))
    /\ UNCHANGED <<heap, lists, clockvars, CONDITION_PARSERS, registered>>

EstimateTimedelta(o, dt) ==
    /\ ret' = Ret("estimate_timedelta", <<o, dt>>, estimate_timedelta(heap, lists, o, dt))
    /\ UNCHANGED <<heap, lists, clockvars, CONDITION_PARSERS, registered>>

(* datetime.datetime.now() advances *)
Tick ==
    /\ now < MaxTime
    /\ now' = now + 1
    /\ UNCHANGED <<heap, lists, mode, _current_datetime, ret, CONDITION_PARSERS, registered>>

(* BaseCondition.mode = m *)
SetMode(m) ==
    /\ mode' = m
    /\ UNCHANGED <<heap, lists, now, _current_datetime, ret, CONDITION_PARSERS, registered>>

(* cls.set_current_datetime(value) *)
SetCurrentDatetime(cls, value) ==
    /\ _current_datetime' = set_current_datetime(_current_datetime, cls, value)
    /\ UNCHANGED <<heap, lists, now, mode, ret, CONDITION_PARSERS, registered>>

AddConditionParser(s, func, regex) ==
    /\ Len(CONDITION_PARSERS) < MaxParsers
    /\ CONDITION_PARSERS' = add_condition_parser(CONDITION_PARSERS, s, func, regex)
    /\ registered' = Append(registered, Parser(s, func, regex))
    /\ ret' = Ret("add_condition_parser", <<>>, Returned(0, <<>>))
    /\ UNCHANGED <<heap, lists, clockvars>>

ParseConditionItem(s) ==
    /\ ret' = Ret("parse_condition_item", s, parse_condition_item(CONDITION_PARSERS, s))
    /\ UNCHANGED <<heap, lists, clockvars, CONDITION_PARSERS, registered>>

---------------------------------------------------------------------------
(* Specifications *)

InitWith(h) ==
    /\ heap = h
    /\ lists = <<>>
    /\ now = 0
    /\ mode = "prod"
    /\ _current_datetime = NoOverride
    /\ ret = NoRet
    /\ CONDITION_PARSERS = <<>>
    /\ registered = <<>>

(* Construction of conditions with the constructors and the operators *)
Init == InitWith(<<AlwaysTrue, AlwaysFalse, AlwaysTrue>>)

Next ==
    \/ Room(MaxObjs) /\ \E conditions \in ArgLists(MaxArgs) : NewAny(conditions)
    \/ Room(MaxObjs) /\ \E conditions \in ArgLists(MaxArgs) : NewAll(conditions)
    \/ Room(MaxObjs) /\ \E condition \in Objs : NewNot(condition)
    \/ Room(MaxObjs) /\ \E self \in Objs, other \in Objs : And(self, other)
    \/ Room(MaxObjs) /\ \E self \in Objs, other \in Objs : Or(self, other)
    \/ \E self \in Objs :
          (isinstance(heap, self, "Not") \/ Room(MaxObjs)) /\ InvertOp(self)
    \/ Room(MaxObjs) /\ \E self \in Objs, func \in ApplyFuncs :
          /\ IsConditionContainer(heap, self)
          /\ Len(apply(heap, lists, self, func).heap) <= MaxObjs
          /\ Apply(self, func)

Spec == Init /\ [][Next]_vars

(* Evaluation of conditions built over true, false and raising leaves *)
InitEval == InitWith(<<AlwaysTrue, AlwaysFalse, Raises>>)

NextEval ==
    \/ Room(MaxEvalObjs) /\ \E conditions \in ArgLists(MaxEvalArgs) : NewAny(conditions)
    \/ Room(MaxEvalObjs) /\ \E conditions \in ArgLists(MaxEvalArgs) : NewAll(conditions)
    \/ Room(MaxEvalObjs) /\ \E condition \in Objs : NewNot(condition)
    \/ \E o \in Objs : Evaluate(o)

SpecEval == InitEval /\ [][NextEval]_vars

(* Estimates of conditions built over two time conditions *)
InitTime ==
    \E p1 \in Periods, p2 \in Periods :
        InitWith(<<TimeCondition(p1), TimeCondition(p2), AlwaysTrue>>)

NextTime ==
    \/ Room(MaxTimeObjs) /\ \E conditions \in ArgLists(MaxArgs) : NewAny(conditions)
    \/ Room(MaxTimeObjs) /\ \E conditions \in ArgLists(MaxArgs) : NewAll(conditions)
    \/ Room(MaxTimeObjs) /\ \E condition \in Objs : NewNot(condition)
    \/ \E o \in Objs, dt \in Instants : EstimateNext(o, dt)
    \/ \E o \in Objs, dt \in Instants : EstimateTimedelta(o, dt)

SpecTime == InitTime /\ [][NextTime]_vars

(* Evaluation of time conditions under the system clock and the test-mode  *)
(* override of the clock                                                   *)
InitClock ==
    \E p \in Periods : InitWith(<<TimeCondition(p)>>)

NextClock ==
    \/ Tick
    \/ \E m \in {"prod", "test"} : SetMode(m)
    \/ \E cls \in Classes, value \in Instants : SetCurrentDatetime(cls, value)
    \/ \E o \in Objs : Evaluate(o)
    \/ Room(MaxClockObjs) /\ \E self \in Objs, other \in Objs : And(self, other)
    \/ Room(MaxClockObjs) /\ \E self \in Objs, other \in Objs : Or(self, other)
    \/ \E self \in Objs :
          (isinstance(heap, self, "Not") \/ Room(MaxClockObjs)) /\ InvertOp(self)

SpecClock == InitClock /\ [][NextClock]_vars

(* Registration of rules and parsing *)
InitParse == InitWith(<<>>)

NextParse ==
    \/ \E rule \in Rules : AddConditionParser(rule.s, rule.func, rule.regex)
    \/ \E s \in Texts : ParseConditionItem(s)

SpecParse == InitParse /\ [][NextParse]_vars

---------------------------------------------------------------------------
(* Properties *)

MinOf(S) == CHOOSE x \in S : \A y \in S : x <= y
MaxOf(S) == CHOOSE x \in S : \A y \in S : x >= y

RECURSIVE Concat(_)
Concat(seqs) == IF seqs = <<>> THEN <<>> ELSE Head(seqs) \o Concat(Tail(seqs))

(* The leaf arguments of o for a composite of type `type`: o itself, or    *)
(* the leaf arguments of its children when o is of that type               *)
RECURSIVE LeafArgs(_, _)
LeafArgs(o, type) ==
    IF isinstance(heap, o, type)
    THEN Concat([i \in 1..Len(Children(heap, lists, o)) |->
                    LeafArgs(Children(heap, lists, o)[i], type)])
    ELSE <<o>>

(* Structural equality of two condition trees *)
RECURSIVE StructEq(_, _)
StructEq(a, b) ==
    /\ heap[a].type = heap[b].type
    /\ heap[a].period = heap[b].period
    /\ Len(Children(heap, lists, a)) = Len(Children(heap, lists, b))
    /\ \A i \in 1..Len(Children(heap, lists, a)) :
          StructEq(Children(heap, lists, a)[i], Children(heap, lists, b)[i])

BuiltComposite == ret.op \in {"Any", "All", "__or__", "__and__"}

(* Some condition of the tree of o reads the clock when o is evaluated *)
RECURSIVE ReadsClock(_)
ReadsClock(o) ==
    \/ isinstance(heap, o, "TimeCondition")
    \/ \E i \in 1..Len(Children(heap, lists, o)) :
          ReadsClock(Children(heap, lists, o)[i])

(* The outcome of bool(c) for a condition c that does not read the clock,  *)
(* which has one outcome only                                              *)
Verdict(c) == CHOOSE r \in Bool(heap, lists, Clock, c) : TRUE

(* The results bool(c) can have, whatever it visited *)
Verdicts(c) ==
    {[kind |-> r.kind, value |-> r.value, exc |-> r.exc] :
        r \in Bool(heap, lists, Clock, c)}

(* C1: evaluating an Any (an All) visits the children in order and stops   *)
(* at the first true (false) child: when a deciding child comes before any *)
(* raising child the result is the decided value and no later child is     *)
(* evaluated; when a raising child comes first its error propagates.       *)
(* Stated for composites whose children have one outcome each, those that  *)
(* do not read the clock.                                                  *)
C1_ShortCircuit ==
    (/\ ret.op = "__bool__"
     /\ heap[ret.args[1]].type \in {"Any", "All"}
     /\ ~ReadsClock(ret.args[1])) =>
        LET o == ret.args[1]
            cs == lists[heap[o].subconditions]
            decided == (heap[o].type = "Any")
            child(i) == Verdict(cs[i])
            D == {i \in 1..Len(cs) : child(i).kind = "return" /\ child(i).value = decided}
            R == {i \in 1..Len(cs) : child(i).kind = "raise"}
        IN  /\ (D # {} /\ \A r \in R : MinOf(D) < r) =>
                  /\ ret.out.kind = "return"
                  /\ ret.out.value = decided
                  /\ ret.out.visited = SubSeq(cs, 1, MinOf(D))
            /\ (R # {} /\ \A d \in D : MinOf(R) < d) =>
                  /\ ret.out.kind = "raise"
                  /\ ret.out.exc = child(MinOf(R)).exc
                  /\ ret.out.visited = SubSeq(cs, 1, MinOf(R))
            /\ (D = {} /\ R = {}) =>
                  /\ ret.out.kind = "return"
                  /\ ret.out.value = ~decided
                  /\ ret.out.visited = cs

(* An Any returned true with a raising child right after the deciding one *)
C1_Witness ==
    /\ ret.op = "__bool__"
    /\ isinstance(heap, ret.args[1], "Any")
    /\ ret.out.kind = "return"
    /\ ret.out.value = TRUE
    /\ LET cs == lists[heap[ret.args[1]].subconditions] IN
       /\ Len(ret.out.visited) < Len(cs)
       /\ isinstance(heap, cs[Len(ret.out.visited) + 1], "Raises")

(* C2: the child sequence of a newly built Any (All) is the left-to-right  *)
(* concatenation of the leaf arguments, and no Any (All) has a direct      *)
(* child that is an Any (All).                                             *)
C2_Flattening ==
    /\ BuiltComposite =>
          Children(heap, lists, ret.out.value)
              = Concat([i \in 1..Len(ret.args) |->
                           LeafArgs(ret.args[i], heap[ret.out.value].type)])
    /\ \A o \in Objs :
          heap[o].type \in {"Any", "All"} =>
              \A i \in 1..Len(Children(heap, lists, o)) :
                  heap[Children(heap, lists, o)[i]].type # heap[o].type

(* An Any built from two non-empty Any arguments *)
C2_Witness ==
    /\ ret.op \in {"Any", "__or__"}
    /\ Len(ret.args) = 2
    /\ isinstance(heap, ret.args[1], "Any")
    /\ isinstance(heap, ret.args[2], "Any")
    /\ Len(Children(heap, lists, ret.args[1])) >= 2
    /\ Len(Children(heap, lists, ret.out.value)) >= 4

(* C3 as stated: for every condition x, ~(~x) is the object x itself and   *)
(* no new object is created by the second ~.                               *)
C3_DoubleInvertIdentity ==
    [][(/\ ret.op = "__invert__"
        /\ ret'.op = "__invert__"
        /\ ret'.args = <<ret.out.value>>)
       => (ret'.out.value = ret.args[1] /\ heap' = heap)]_vars

(* C3 amended: for every condition x that is not itself a Not, ~(~x) is    *)
(* the object x itself and the second ~ creates no object.                 *)
C3_DoubleInvertOfNonNot ==
    [][(/\ ret.op = "__invert__"
        /\ ~isinstance(heap, ret.args[1], "Not")
        /\ ret'.op = "__invert__"
        /\ ret'.args = <<ret.out.value>>)
       => (ret'.out.value = ret.args[1] /\ heap' = heap)]_vars

(* ~ was applied to a Not and returned the wrapped object *)
C3_Witness ==
    /\ ret.op = "__invert__"
    /\ isinstance(heap, ret.args[1], "Not")
    /\ ~isinstance(heap, ret.out.value, "Not")
    /\ ret.out.value = heap[ret.args[1]].condition

(* C4: constructing Not(Not(a)) yields a condition structurally equal to a *)
(* that evaluates as a does.                                               *)
C4_DoubleNegationAtConstruction ==
    (ret.op = "Not" /\ isinstance(heap, ret.args[1], "Not")) =>
        /\ StructEq(ret.out.value, heap[ret.args[1]].condition)
        /\ Verdicts(ret.out.value) = Verdicts(heap[ret.args[1]].condition)

(* The estimate the specification gives a leaf child: the waiting time     *)
(* until the window opens for a time condition, `lacking` for a leaf       *)
(* without the capability                                                  *)
ClaimedLeafEstimate(c, dt, lacking) ==
    IF isinstance(heap, c, "TimeCondition")
    THEN rollforward_left(heap[c].period, dt) - dt
    ELSE lacking

LeafChildren(o) ==
    /\ Children(heap, lists, o) # <<>>
    /\ \A i \in 1..Len(Children(heap, lists, o)) :
          ~IsConditionContainer(heap, Children(heap, lists, o)[i])

(* C5: the estimate of a non-empty Any is returned, not raised, and is the *)
(* minimum of its children's estimates, zero for a child without the       *)
(* capability (stated for an Any over leaves).                             *)
C5_AnyEstimateIsMin ==
    (/\ ret.op = "estimate_timedelta"
     /\ isinstance(heap, ret.args[1], "Any")
     /\ LeafChildren(ret.args[1])) =>
        LET cs == Children(heap, lists, ret.args[1]) IN
        /\ ret.out.kind = "return"
        /\ ret.out.value
              = MinOf({ClaimedLeafEstimate(cs[i], ret.args[2], 0) : i \in 1..Len(cs)})

(* C6: the estimate of a non-empty All is the maximum of its children's    *)
(* estimates, the resolution only for a child without the capability       *)
(* (stated for an All over leaves).                                        *)
C6_AllEstimateIsMax ==
    (/\ ret.op = "estimate_timedelta"
     /\ isinstance(heap, ret.args[1], "All")
     /\ LeafChildren(ret.args[1])) =>
        LET cs == Children(heap, lists, ret.args[1]) IN
        /\ ret.out.kind = "return"
        /\ ret.out.value
              = MaxOf({ClaimedLeafEstimate(cs[i], ret.args[2], Resolution) : i \in 1..Len(cs)})

(* C7: the estimate of a time condition is the left edge of the window     *)
(* rolled forward to now, minus now.                                       *)
C7_EstimateIsWaitingTime ==
    ret.op = "estimate_next" =>
        /\ ret.out.kind = "return"
        /\ ret.out.value
              = rollforward_left(heap[ret.args[1]].period, ret.args[2]) - ret.args[2]

(* No two objects share a subconditions list *)
NoSharedList(h) ==
    \A a \in 1..Len(h), b \in 1..Len(h) :
        (a # b /\ h[a].subconditions # 0) => h[a].subconditions # h[b].subconditions

(* C8: no operation changes an existing object or an existing list, and    *)
(* the child list of a new composite is shared with no other object.       *)
C8_OperandsNotMutated ==
    [][/\ \A o \in 1..Len(heap) : o \in 1..Len(heap') /\ heap'[o] = heap[o]
       /\ \A o \in 1..Len(heap) :
             heap[o].subconditions # 0 =>
                lists'[heap[o].subconditions] = lists[heap[o].subconditions]
       /\ NoSharedList(heap')]_vars

(* y = x | c (or x & c) was built from an existing composite x of the same *)
(* type, and y has more children than x                                    *)
C8_Witness ==
    /\ ret.op \in {"__or__", "__and__"}
    /\ heap[ret.args[1]].type = heap[ret.out.value].type
    /\ Children(heap, lists, ret.args[1]) # <<>>
    /\ ~isinstance(heap, ret.args[2], heap[ret.out.value].type)
    /\ Len(Children(heap, lists, ret.out.value))
          = Len(Children(heap, lists, ret.args[1])) + 1

(* C9: every Any and All has a non-empty child sequence, every Not has     *)
(* exactly one child.                                                      *)
C9_NonEmptyComposites ==
    \A o \in Objs :
        /\ heap[o].type \in {"Any", "All"} => Children(heap, lists, o) # <<>>
        /\ heap[o].type = "Not" => heap[o].condition \in Objs

(* C10: parse_condition_item returns the result of the earliest-registered *)
(* rule that matches, consulting no later rule, and fails with an error    *)
(* when no registered rule matches.                                        *)
C10_FirstRegisteredMatch ==
    ret.op = "parse_condition_item" =>
        LET s == ret.args
            M == {i \in 1..Len(registered) : Matches(registered[i], s)}
        IN  IF M # {}
            THEN /\ ret.out.kind = "return"
                 /\ ret.out.value = registered[MinOf(M)].func
                 /\ ret.out.visited = [k \in 1..MinOf(M) |-> k]
            ELSE /\ ret.out.kind = "raise"
                 /\ ret.out.exc = "ValueError"

(* Two registered rules with different functions match the parsed text *)
C10_Witness ==
    /\ ret.op = "parse_condition_item"
    /\ ret.out.kind = "return"
    /\ \E i \in 1..Len(registered), j \in 1..Len(registered) :
          /\ i < j
          /\ Matches(registered[i], ret.args)
          /\ Matches(registered[j], ret.args)
          /\ registered[i].func # registered[j].func
          /\ ret.out.value = registered[i].func

====
